---- MODULE Spec2Model ----
(***************************************************************************)
(* Lifecycle handlers of the squadcast_schedule_rotation and               *)
(* squadcast_webform resources (internal/provider).                        *)
(*                                                                         *)
(* One behaviour follows one managed resource of one kind.  The host SDK   *)
(* builds a ResourceData `d` for every lifecycle call (Begin* actions),    *)
(* the handler of the resource runs to completion in one step, and the SDK *)
(* stores what the handler left in `d` (Return).  The remote platform is   *)
(* an environment: every remote call draws its outcome from the outcomes   *)
(* the platform can produce, and the set of objects it holds is `remote`.  *)
(* Strings the code computes on (resource ids, import ids) are sequences   *)
(* of one-character strings; the other strings are opaque.                 *)
(***************************************************************************)
EXTENDS Integers, Sequences, FiniteSets, TLC

VARIABLES
    kind,       \* "rotation" or "webform": the resource type under management
    phase,      \* "idle" | "ready" (d built, handler not yet run) | "done"
    op,         \* lifecycle operation of the current call
    d,          \* schema.ResourceData of the current call: [id, cfg]
    id0,        \* d.Id() when the handler was entered
    calls,      \* remote calls and d.SetId calls of the handler, in order
    sent,       \* request bodies the handler sent, in order
    err,        \* "" (nil) or the error the handler returned
    stateId,    \* id stored in the Terraform state ("" = not in state)
    remote,     \* numeric ids of the objects the platform holds
    nextID,     \* id the platform gives to the next object it creates
    onlyCU      \* every call so far was a create or update that returned nil

vars == <<kind, phase, op, d, id0, calls, sent, err, stateId, remote, nextID, onlyCU>>

----------------------------------------------------------------------------
(* Bounds *)

MaxGroups == 2      \* participant_groups per configuration
MaxSlots == 2       \* shift_timeslots per configuration
MaxImportLen == 7   \* characters of an import id
MaxCreates == 2     \* objects the platform creates in one behaviour
FirstID == 9        \* id of the first object the platform creates

ExternalID == FirstID - 1   \* an object that was made outside Terraform

----------------------------------------------------------------------------
(* Strings *)

EmptyStr == <<>>

Chars == {"a", ":"}

RECURSIVE StrUpTo(_)
StrUpTo(n) ==
    IF n = 0 THEN {EmptyStr}
    ELSE LET S == StrUpTo(n - 1)
         IN  S \cup {Append(s, c) : s \in {t \in S : Len(t) = n - 1}, c \in Chars}

ImportIDs == StrUpTo(MaxImportLen) \ {EmptyStr}

Digits == <<"0", "1", "2", "3", "4", "5", "6", "7", "8", "9">>

\* strconv.FormatUint(n, 10)
RECURSIVE FormatUint(_)
FormatUint(n) ==
    IF n < 10 THEN <<Digits[n + 1]>>
    ELSE Append(FormatUint(n \div 10), Digits[(n % 10) + 1])

\* strconv.Itoa(n)
Itoa(n) == IF n < 0 THEN <<"-">> \o FormatUint(0 - n) ELSE FormatUint(n)

\* strings.Index(s, ":") as a 1-based position, 0 when there is none
IndexColon(s) ==
    IF \E i \in 1..Len(s) : s[i] = ":"
    THEN CHOOSE i \in 1..Len(s) : s[i] = ":" /\ \A j \in 1..(i - 1) : s[j] # ":"
    ELSE 0

\* strings.SplitN(s, ":", n) for n > 0: at most n parts, the last one unsplit
RECURSIVE SplitN(_, _)
SplitN(s, n) ==
    IF n = 1 \/ IndexColon(s) = 0 THEN <<s>>
    ELSE LET i == IndexColon(s)
         IN  <<SubSeq(s, 1, i - 1)>> \o SplitN(SubSeq(s, i + 1, Len(s)), n - 1)

\* the platform resolves an id string to a number; -1 when it is no decimal
DigitValue(c) == IF \E k \in 1..10 : Digits[k] = c
                 THEN (CHOOSE k \in 1..10 : Digits[k] = c) - 1 ELSE -1

RECURSIVE ParseInt(_)
ParseInt(s) ==
    IF Len(s) = 0 THEN -1
    ELSE IF DigitValue(s[Len(s)]) < 0 THEN -1
    ELSE IF Len(s) = 1 THEN DigitValue(s[1])
    ELSE LET hi == ParseInt(SubSeq(s, 1, Len(s) - 1))
         IN  IF hi < 0 THEN -1 ELSE hi * 10 + DigitValue(s[Len(s)])

----------------------------------------------------------------------------
(* The run of one handler: what it has done to d and to the platform so far *)

Call(fn, team, id, names, out, ret) ==
    [fn |-> fn, team |-> team, id |-> id, names |-> names, out |-> out, ret |-> ret]

Log(r, c) == [r EXCEPT !.calls = Append(@, c)]

\* d.SetId(id)
SetId(r, id) ==
    Log([r EXCEPT !.id = id], Call("SetId", "", id, <<>>, "", 0))

\* return diag.FromErr(err) / diag.Errorf(msg)
Fail(r, msg) == [r EXCEPT !.err = msg]

Send(r, req) == [r EXCEPT !.sent = Append(@, req)]

ErrRemote == "remote error"
ErrEncode == "encode error"

----------------------------------------------------------------------------
(* The platform (internal/api client calls): each call is logged with the   *)
(* outcome the platform gave.  A lookup or delete can find the object gone  *)
(* at any time, because objects can be removed outside Terraform.           *)

LastCall(r) == r.calls[Len(r.calls)]
LastOut(r) == LastCall(r).out

\* GET of one object by id: found, gone, or some other failure
RemoteGet(r, fn, team, id) ==
    LET n == ParseInt(id)
    IN  {Log(r, Call(fn, team, id, <<>>, "ok", n)) : x \in {y \in {n} : y \in r.remote}}
        \cup {Log([r EXCEPT !.remote = @ \ {n}], Call(fn, team, id, <<>>, "notfound", 0))}
        \cup {Log(r, Call(fn, team, id, <<>>, "error", 0))}

\* DELETE of one object by id: deleted, already gone, or some other failure
RemoteDelete(r, fn, team, id) ==
    LET n == ParseInt(id)
    IN  {Log([r EXCEPT !.remote = @ \ {n}], Call(fn, team, id, <<>>, "ok", n))
            : x \in {y \in {n} : y \in r.remote}}
        \cup {Log([r EXCEPT !.remote = @ \ {n}], Call(fn, team, id, <<>>, "notfound", 0))}
        \cup {Log(r, Call(fn, team, id, <<>>, "error", 0))}

\* creation of an object from a request: the platform numbers it, or fails
RemoteCreate(r, fn, team, req) ==
    {Log(Send(r, req), Call(fn, team, EmptyStr, <<>>, "error", 0))}
    \cup {Log(Send([r EXCEPT !.remote = @ \cup {r.nextID}, !.nextID = @ + 1], req),
              Call(fn, team, EmptyStr, <<>>, "ok", r.nextID))
            : x \in {y \in {r.nextID} : y < FirstID + MaxCreates}}

\* update of an existing object from a request
RemoteUpdate(r, fn, team, id, req) ==
    LET n == ParseInt(id)
    IN  {Log(Send(r, req), Call(fn, team, id, <<>>, "ok", n))
            : x \in {y \in {n} : y \in r.remote}}
        \cup {Log(Send(r, req), Call(fn, team, id, <<>>, "error", 0))}

GetScheduleRotationById(r, id) == RemoteGet(r, "GetScheduleRotationById", "", id)

DeleteScheduleRotationByID(r, id) == RemoteDelete(r, "DeleteScheduleRotationByID", "", id)

CreateScheduleRotation(r, req) == RemoteCreate(r, "CreateScheduleRotation", "", req)

\* lookup of a rotation by team, schedule name and rotation name
GetRotationByName(r, teamID, scheduleName, rotationName) ==
    LET names == <<teamID, scheduleName, rotationName>>
    IN  {Log(r, Call("GetRotationByName", "", EmptyStr, names, "ok", n)) : n \in r.remote}
        \cup {Log(r, Call("GetRotationByName", "", EmptyStr, names, "error", 0))}

----------------------------------------------------------------------------
(* resource_schedule_rotation.go *)

\* Decode of a participants list into []api.Participant
DecodeParticipants(list) ==
    [i \in 1..Len(list) |-> [ID |-> list[i].id, Type |-> list[i].type]]

\* Decode of shift_timeslots into []api.Timeslot
DecodeTimeslots(list) ==
    [i \in 1..Len(list) |-> [StartHour |-> list[i].start_hour,
                             StartMinute |-> list[i].start_minute,
                             Duration |-> list[i].duration]]

ErrFormat == "unexpected format of import resource id"


\* the parser without the test for empty parts
parse3PartImportID_emptyParts(id) ==
    LET parts == SplitN(id, 3)
    IN  IF Len(parts) # 3
        THEN [teamID |-> EmptyStr, scheduleName |-> EmptyStr, rotationName |-> EmptyStr,
              err |-> ErrFormat]
        ELSE [teamID |-> parts[1], scheduleName |-> parts[2], rotationName |-> parts[3],
              err |-> ""]

parse3PartImportID(id) ==
    LET parts == SplitN(id, 3)
    IN  IF Len(parts) # 3 \/ parts[1] = EmptyStr \/ parts[2] = EmptyStr \/ parts[3] = EmptyStr
        THEN [teamID |-> EmptyStr, scheduleName |-> EmptyStr, rotationName |-> EmptyStr,
              err |-> ErrFormat]
        ELSE [teamID |-> parts[1], scheduleName |-> parts[2], rotationName |-> parts[3],
              err |-> ""]

RotationImportFound(g) == SetId(g, Itoa(LastCall(g).ret))

resourceScheduleRotationImport(r) ==
    LET p == parse3PartImportID(r.id)
    IN  IF p.err # "" THEN {Fail(r, p.err)}
        ELSE UNION {IF LastOut(g) # "ok" THEN {Fail(g, ErrRemote)}
                    ELSE {RotationImportFound(g)}
                      : g \in GetRotationByName(r, p.teamID, p.scheduleName, p.rotationName)}


\* a Read that reports a missing rotation as a failure
RotationReadNotFound_reported(g) == Fail(g, ErrRemote)

RotationReadNotFound(g) == SetId(g, EmptyStr)

resourceScheduleRotationRead(r) ==
    UNION {IF LastOut(g) # "ok"
           THEN IF LastOut(g) = "notfound"      \* api.IsResourceNotFoundError(err)
                THEN {RotationReadNotFound(g)}
                ELSE {Fail(g, ErrRemote)}
           ELSE {g, Fail(g, ErrEncode)}         \* tf.EncodeAndSet(rotation, d)
             : g \in GetScheduleRotationById(r, r.id)}

NewRotation(cfg) ==
    [Name |-> cfg.name,
     StartDate |-> cfg.start_date,
     Period |-> cfg.period,
     ChangeParticipantsFrequency |-> cfg.change_participants_frequency,
     ChangeParticipantsUnit |-> cfg.change_participants_unit,
     EndDate |-> cfg.end_date,
     EndsAfterIterations |-> cfg.ends_after_iterations,
     ParticipantGroups |-> <<>>,
     ShiftTimeSlots |-> <<>>,
     CustomPeriodFrequency |-> 0,
     CustomPeriodUnit |-> ""]


\* the groups appended in reverse
ParticipantGroupsOf_reversed(participants) ==
    [i \in 1..Len(participants) |->
        [Participants |->
            DecodeParticipants(participants[Len(participants) + 1 - i].participants),
         Everyone |-> FALSE]]

ParticipantGroupsOf(participants) ==
    [i \in 1..Len(participants) |->
        [Participants |-> DecodeParticipants(participants[i].participants),
         Everyone |-> FALSE]]

ErrMultipleSlots == "multiple shift_timeslots can only be set when period is custom"


\* the timeslot check without the test of the period
MultipleTimeslotsRejected_anyPeriod(period, shiftTimeSlots) ==
    Len(shiftTimeSlots) > 1

MultipleTimeslotsRejected(period, shiftTimeSlots) ==
    period # "custom" /\ Len(shiftTimeSlots) > 1


\* the custom branch without the test of the unit
CustomPeriodSet_unitUnchecked(req, customPeriodFreq, customPeriodUnit) ==
    IF customPeriodFreq = 0
    THEN [err |-> "custom_period_frequency must be set when period is custom", req |-> req]
    ELSE [err |-> "",
          req |-> [req EXCEPT !.CustomPeriodFrequency = customPeriodFreq,
                              !.CustomPeriodUnit = customPeriodUnit]]

\* the period == "custom" branch
CustomPeriodSet(req, customPeriodFreq, customPeriodUnit) ==
    IF customPeriodFreq = 0
    THEN [err |-> "custom_period_frequency must be set when period is custom", req |-> req]
    ELSE IF customPeriodUnit = ""
    THEN [err |-> "custom_period_unit must be set when period is custom", req |-> req]
    ELSE [err |-> "",
          req |-> [req EXCEPT !.CustomPeriodFrequency = customPeriodFreq,
                              !.CustomPeriodUnit = customPeriodUnit]]


\* the else branch passing the values on instead of rejecting them
CustomPeriodUnset_passedOn(req, customPeriodFreq, customPeriodUnit) ==
    [err |-> "",
     req |-> [req EXCEPT !.CustomPeriodFrequency = customPeriodFreq,
                         !.CustomPeriodUnit = customPeriodUnit]]

\* the else branch
CustomPeriodUnset(req, customPeriodFreq, customPeriodUnit) ==
    IF customPeriodFreq # 0
    THEN [err |-> "custom_period_frequency can only be set when period is custom", req |-> req]
    ELSE IF customPeriodUnit # ""
    THEN [err |-> "custom_period_unit can only be set when period is custom", req |-> req]
    ELSE [err |-> "", req |-> req]

RotationCreated(g) == SetId(g, Itoa(LastCall(g).ret))

\* CreateContext and UpdateContext of the resource
resourceScheduleRotationCreate(r, cfg) ==
    LET req0 == NewRotation(cfg)
        participants == cfg.participant_groups
        req1 == IF Len(participants) > 0
                THEN [req0 EXCEPT !.ParticipantGroups = ParticipantGroupsOf(participants)]
                ELSE req0
        shiftTimeSlots == cfg.shift_timeslots
        req2 == IF Len(shiftTimeSlots) > 0
                THEN [req1 EXCEPT !.ShiftTimeSlots = DecodeTimeslots(shiftTimeSlots)]
                ELSE req1
        cp == IF req2.Period = "custom"
              THEN CustomPeriodSet(req2, cfg.custom_period_frequency, cfg.custom_period_unit)
              ELSE CustomPeriodUnset(req2, cfg.custom_period_frequency, cfg.custom_period_unit)
    IN  \* Decode of a group's participants can fail
        (IF Len(participants) > 0 THEN {Fail(r, "participants are invalid")} ELSE {})
        \cup
        (IF Len(shiftTimeSlots) > 0 /\ MultipleTimeslotsRejected(req1.Period, shiftTimeSlots)
         THEN {Fail(r, ErrMultipleSlots)}
         ELSE \* Decode of the timeslots can fail
              (IF Len(shiftTimeSlots) > 0 THEN {Fail(r, "shift_timeslots is invalid")} ELSE {})
              \cup
              (IF cp.err # "" THEN {Fail(r, cp.err)}
               ELSE UNION {IF LastOut(g) # "ok" THEN {Fail(g, ErrRemote)}
                           ELSE resourceScheduleRotationRead(RotationCreated(g))
                             : g \in CreateScheduleRotation(r, cp.req)}))

RotationDeleteNotFound(g) == SetId(g, EmptyStr)

resourceScheduleRotationDelete(r) ==
    UNION {IF LastOut(g) # "ok"
           THEN IF LastOut(g) = "notfound"      \* api.IsResourceNotFoundError(err)
                THEN {RotationDeleteNotFound(g)}
                ELSE {Fail(g, ErrRemote)}
           ELSE {g}
             : g \in DeleteScheduleRotationByID(r, r.id)}

----------------------------------------------------------------------------
(* resource_webform.go *)

GetWebformById(r, teamID, id) == RemoteGet(r, "GetWebformById", teamID, id)

DeleteWebform(r, teamID, id) == RemoteDelete(r, "DeleteWebform", teamID, id)

CreateWebform(r, teamID, req) == RemoteCreate(r, "CreateWebform", teamID, req)

UpdateWebform(r, teamID, id, req) == RemoteUpdate(r, "UpdateWebform", teamID, id, req)

\* Decode of services into []api.WFService
DecodeServices(list) ==
    [i \in 1..Len(list) |-> [ServiceID |-> list[i].service_id,
                             Name |-> list[i].name,
                             Alias |-> list[i].alias]]

\* Decode of severity into []api.WFSeverity
DecodeSeverity(list) ==
    [i \in 1..Len(list) |-> [Type |-> list[i].type, Description |-> list[i].description]]

ErrServices == "services are invalid"
ErrSeverity == "severity is invalid"

\* the request resourceWebformCreate builds
webformCreateReq(cfg) ==
    [Name |-> cfg.name,
     TeamID |-> cfg.team_id,
     FormOwnerType |-> cfg.form_owner_type,
     FormOwnerID |-> cfg.form_owner_id,
     FormOwnerName |-> cfg.form_owner_name,
     HostName |-> cfg.host_name,
     IsCname |-> cfg.is_cname,
     Header |-> cfg.header,
     Description |-> cfg.description,
     Title |-> cfg.title,
     FooterText |-> cfg.footer_text,
     FooterLink |-> cfg.footer_link,
     EmailOn |-> [i \in 1..Len(cfg.email_on) |-> cfg.email_on[i]],
     Services |-> DecodeServices(cfg.services),
     Severity |-> DecodeSeverity(cfg.severity),
     Tags |-> [k \in DOMAIN cfg.tags |-> cfg.tags[k]]]

WebformReadNotFound(g) == SetId(g, EmptyStr)

resourceWebformRead(r, cfg) ==
    IF cfg.team_id = ""                          \* d.GetOk("team_id")
    THEN {Fail(r, "invalid team id provided !")}
    ELSE UNION {IF LastOut(g) # "ok"
                THEN IF LastOut(g) = "notfound"  \* api.IsResourceNotFoundError(err)
                     THEN {WebformReadNotFound(g)}
                     ELSE {Fail(g, ErrRemote)}
                ELSE {g, Fail(g, ErrEncode)}     \* tf.EncodeAndSet(webform, d)
                  : g \in GetWebformById(r, cfg.team_id, r.id)}


\* a Create that formats only the last digit of the webform id
WebformCreated_lastDigit(g) == SetId(g, FormatUint(LastCall(g).ret % 10))

WebformCreated(g) == SetId(g, FormatUint(LastCall(g).ret))

resourceWebformCreate(r, cfg) ==
    {Fail(r, ErrServices), Fail(r, ErrSeverity)}     \* either Decode can fail
    \cup UNION {IF LastOut(g) # "ok" THEN {Fail(g, ErrRemote)}
                ELSE resourceWebformRead(WebformCreated(g), cfg)
                  : g \in CreateWebform(r, cfg.team_id, webformCreateReq(cfg))}


\* an Update request with title and header swapped
webformUpdateReq_swapped(cfg) ==
    [webformCreateReq(cfg) EXCEPT !.Header = cfg.title, !.Title = cfg.header]

\* the request resourceWebformUpdate builds
webformUpdateReq(cfg) ==
    [Name |-> cfg.name,
     TeamID |-> cfg.team_id,
     FormOwnerType |-> cfg.form_owner_type,
     FormOwnerID |-> cfg.form_owner_id,
     FormOwnerName |-> cfg.form_owner_name,
     HostName |-> cfg.host_name,
     IsCname |-> cfg.is_cname,
     Header |-> cfg.header,
     Description |-> cfg.description,
     Title |-> cfg.title,
     FooterText |-> cfg.footer_text,
     FooterLink |-> cfg.footer_link,
     EmailOn |-> [i \in 1..Len(cfg.email_on) |-> cfg.email_on[i]],
     Services |-> DecodeServices(cfg.services),
     Severity |-> DecodeSeverity(cfg.severity),
     Tags |-> [k \in DOMAIN cfg.tags |-> cfg.tags[k]]]

resourceWebformUpdate(r, cfg) ==
    {Fail(r, ErrServices), Fail(r, ErrSeverity)}     \* either Decode can fail
    \cup UNION {IF LastOut(g) # "ok" THEN {Fail(g, ErrRemote)}
                ELSE resourceWebformRead(g, cfg)
                  : g \in UpdateWebform(r, cfg.team_id, r.id, webformUpdateReq(cfg))}


\* a Delete that reports a missing webform as a failure
WebformDeleteNotFound_reported(g) == Fail(g, ErrRemote)

WebformDeleteNotFound(g) == SetId(g, EmptyStr)

resourceWebformDelete(r, cfg) ==
    IF cfg.team_id = ""                          \* d.GetOk("team_id")
    THEN {Fail(r, "invalid team id provided")}
    ELSE UNION {IF LastOut(g) # "ok"
                THEN IF LastOut(g) = "notfound"  \* api.IsResourceNotFoundError(err)
                     THEN {WebformDeleteNotFound(g)}
                     ELSE {Fail(g, ErrRemote)}
                ELSE {g}
                  : g \in DeleteWebform(r, cfg.team_id, r.id)}

----------------------------------------------------------------------------
(* Configurations the host hands to the handlers *)

RECURSIVE SeqUpTo(_, _)
SeqUpTo(S, n) ==
    IF n = 0 THEN {<<>>}
    ELSE LET T == SeqUpTo(S, n - 1)
         IN  T \cup {Append(t, x) : t \in {u \in T : Len(u) = n - 1}, x \in S}

User1 == [type |-> "user", id |-> "u1"]
Squad1 == [type |-> "squad", id |-> "s1"]

ParticipantGroups ==
    {[participants |-> p] : p \in {<<>>, <<User1, Squad1>>, <<Squad1, User1>>}}

Slot(i) == [start_hour |-> i, start_minute |-> 0, duration |-> 60]

SlotLists == {[i \in 1..n |-> Slot(i)] : n \in 1..MaxSlots}

RotationConfigs ==
    [name : {"rotation"},
     schedule_id : {1},
     start_date : {"2023-01-01"},
     period : {"daily", "custom"},
     change_participants_frequency : {1},
     change_participants_unit : {"rotation"},
     end_date : {""},
     ends_after_iterations : {0},
     participant_groups : SeqUpTo(ParticipantGroups, MaxGroups),
     shift_timeslots : SlotLists,
     custom_period_frequency : {0, 2},
     custom_period_unit : {"", "week"}]

Service1 == [service_id : {"sv1"}, name : {"service one"}, alias : {""}]
Service2 == [service_id : {"sv2"}, name : {"service two"}, alias : {"two"}]
ServiceA == CHOOSE x \in Service1 : TRUE
ServiceB == CHOOSE x \in Service2 : TRUE

WebformConfigs ==
    [name : {"form", "form2"},
     team_id : {"t1"},
     form_owner_type : {"user"},
     form_owner_id : {"u1"},
     form_owner_name : {"owner"},
     host_name : {"", "host"},
     is_cname : BOOLEAN,
     header : {"header"},
     description : {"", "description"},
     title : {"title"},
     footer_text : {"footer text"},
     footer_link : {"footer link"},
     email_on : {<<>>, <<"triggered">>, <<"triggered", "resolved">>,
                 <<"resolved", "triggered">>},
     services : {<<ServiceA>>, <<ServiceA, ServiceB>>, <<ServiceB, ServiceA>>},
     severity : {<<[type |-> "critical", description |-> "severity"]>>},
     tags : {[k \in {"tagKey"} |-> "tagValue"],
             [k \in {"tagKey", "tagKey2"} |-> IF k = "tagKey" THEN "tagValue" ELSE "tagValue2"]}]

Configs(k) == IF k = "rotation" THEN RotationConfigs ELSE WebformConfigs

\* the attributes the state holds when no new configuration is applied
RotationStateCfg == CHOOSE c \in RotationConfigs : TRUE
WebformStateCfg == CHOOSE c \in WebformConfigs : TRUE
StateCfg(k) == IF k = "rotation" THEN RotationStateCfg ELSE WebformStateCfg

----------------------------------------------------------------------------
(* The lifecycle calls of schema.Resource *)

Init ==
    /\ kind \in {"rotation", "webform"}
    /\ phase = "idle"
    /\ op = "none"
    /\ d = [id |-> EmptyStr, cfg |-> StateCfg(kind)]
    /\ id0 = EmptyStr
    /\ calls = <<>>
    /\ sent = <<>>
    /\ err = ""
    /\ stateId = EmptyStr
    /\ remote = {ExternalID}
    /\ nextID = FirstID
    /\ onlyCU = TRUE

Begin(o, id, cfg) ==
    /\ phase = "idle"
    /\ phase' = "ready"
    /\ op' = o
    /\ d' = [id |-> id, cfg |-> cfg]
    /\ id0' = id
    /\ UNCHANGED <<kind, calls, sent, err, stateId, remote, nextID, onlyCU>>

BeginCreate ==
    /\ stateId = EmptyStr
    /\ \E cfg \in Configs(kind) : Begin("create", EmptyStr, cfg)

BeginUpdate ==
    /\ stateId # EmptyStr
    /\ \E cfg \in Configs(kind) : Begin("update", stateId, cfg)

BeginRead ==
    /\ stateId # EmptyStr
    /\ Begin("read", stateId, StateCfg(kind))

BeginDelete ==
    /\ stateId # EmptyStr
    /\ Begin("delete", stateId, StateCfg(kind))

\* the importer is entered with the import id as d.Id()
BeginImport ==
    /\ kind = "rotation"
    /\ stateId = EmptyStr
    /\ \E id \in ImportIDs : Begin("import", id, StateCfg(kind))

Entry == [id |-> d.id, calls |-> <<>>, sent |-> <<>>, err |-> "",
          remote |-> remote, nextID |-> nextID]

Run(results) ==
    /\ phase = "ready"
    /\ phase' = "done"
    /\ \E r \in results :
          /\ d' = [d EXCEPT !.id = r.id]
          /\ calls' = r.calls
          /\ sent' = r.sent
          /\ err' = r.err
          /\ remote' = r.remote
          /\ nextID' = r.nextID
          /\ onlyCU' = (onlyCU /\ op \in {"create", "update"} /\ r.err = "")
    /\ UNCHANGED <<kind, op, id0, stateId>>

\* CreateContext and UpdateContext are the same function
RotationCreate ==
    /\ kind = "rotation" /\ op \in {"create", "update"}
    /\ Run(resourceScheduleRotationCreate(Entry, d.cfg))

RotationRead ==
    /\ kind = "rotation" /\ op = "read"
    /\ Run(resourceScheduleRotationRead(Entry))

RotationDelete ==
    /\ kind = "rotation" /\ op = "delete"
    /\ Run(resourceScheduleRotationDelete(Entry))

RotationImport ==
    /\ kind = "rotation" /\ op = "import"
    /\ Run(resourceScheduleRotationImport(Entry))

WebformCreate ==
    /\ kind = "webform" /\ op = "create"
    /\ Run(resourceWebformCreate(Entry, d.cfg))

WebformRead ==
    /\ kind = "webform" /\ op = "read"
    /\ Run(resourceWebformRead(Entry, d.cfg))

WebformUpdate ==
    /\ kind = "webform" /\ op = "update"
    /\ Run(resourceWebformUpdate(Entry, d.cfg))

WebformDelete ==
    /\ kind = "webform" /\ op = "delete"
    /\ Run(resourceWebformDelete(Entry, d.cfg))

\* what the host keeps of d once the handler has returned
StoredId ==
    IF op = "import" /\ err # "" THEN EmptyStr
    ELSE IF op = "delete" /\ err = "" THEN EmptyStr
    ELSE d.id

Return ==
    /\ phase = "done"
    /\ phase' = "idle"
    /\ stateId' = StoredId
    /\ op' = "none"
    /\ d' = [id |-> EmptyStr, cfg |-> StateCfg(kind)]
    /\ id0' = EmptyStr
    /\ calls' = <<>>
    /\ sent' = <<>>
    /\ err' = ""
    /\ UNCHANGED <<kind, remote, nextID, onlyCU>>

Next ==
    \/ BeginCreate
    \/ BeginUpdate
    \/ BeginRead
    \/ BeginDelete
    \/ BeginImport
    \/ RotationCreate
    \/ RotationRead
    \/ RotationDelete
    \/ RotationImport
    \/ WebformCreate
    \/ WebformRead
    \/ WebformUpdate
    \/ WebformDelete
    \/ Return

Spec == Init /\ [][Next]_vars

----------------------------------------------------------------------------
(* Properties.  All are stated of the state in which a handler has returned. *)

Returned(k, ops) == phase = "done" /\ kind = k /\ op \in ops

CallIdx(fns) == {i \in 1..Len(calls) : calls[i].fn \in fns}
CallIdxOut(fns, out) == {i \in CallIdx(fns) : calls[i].out = out}

GetByIdFns == {"GetScheduleRotationById", "GetWebformById"}
DeleteFns == {"DeleteScheduleRotationByID", "DeleteWebform"}

\* s is the decimal numeral of n, without sign or leading zeros
IsDecimalOf(s, n) ==
    /\ Len(s) > 0
    /\ \A i \in 1..Len(s) : DigitValue(s[i]) >= 0
    /\ (Len(s) > 1 => s[1] # "0")
    /\ ParseInt(s) = n

\* C1: whenever the lookup of Read reports the object as not found (rotation
\* or webform, Read called directly or at the end of create/update), the
\* handler ends with the resource id empty and returns no error.
C1_ReadNotFoundClearsId ==
    (phase = "done" /\ CallIdxOut(GetByIdFns, "notfound") # {})
        => (d.id = EmptyStr /\ err = "")

C1_Witness ==
    /\ Returned("rotation", {"read"})
    /\ id0 # EmptyStr
    /\ CallIdxOut({"GetScheduleRotationById"}, "notfound") # {}
    /\ d.id = EmptyStr

\* rotations created through the resource in this behaviour
CreatedRotations == {n \in FirstID..(nextID - 1) : n \in remote}

\* C2: after any sequence of successful create and update calls on a rotation
\* resource the platform holds at most one rotation created through the
\* resource, and that rotation is the one the resource id names.
C2_OneRotationPerResource ==
    (Returned("rotation", {"create", "update"}) /\ onlyCU)
        => /\ Cardinality(CreatedRotations) <= 1
           /\ \A n \in CreatedRotations : d.id = Itoa(n)

RotationWrite == Returned("rotation", {"create", "update"})

\* C3: a rotation create/update with a non-custom period and more than one
\* timeslot returns an error, never calls CreateScheduleRotation and leaves
\* the id as it was; with one timeslot, or with period custom, the timeslot
\* check is not what fails.
C3_MultipleTimeslotsNeedCustom ==
    RotationWrite =>
        /\ (d.cfg.period # "custom" /\ Len(d.cfg.shift_timeslots) > 1)
              => (err # "" /\ CallIdx({"CreateScheduleRotation"}) = {} /\ d.id = id0)
        /\ (d.cfg.period = "custom" \/ Len(d.cfg.shift_timeslots) = 1)
              => err # ErrMultipleSlots

C3_Witness ==
    /\ Returned("rotation", {"update"})
    /\ d.cfg.period = "daily"
    /\ Len(d.cfg.shift_timeslots) = 2
    /\ err = ErrMultipleSlots
    /\ d.id = id0 /\ id0 # EmptyStr

\* C4: with period custom, a rotation create/update with frequency 0 or an
\* empty unit returns an error and never calls CreateScheduleRotation; with
\* both present every request sent carries exactly those two values.
C4_CustomPeriodNeedsBoth ==
    (RotationWrite /\ d.cfg.period = "custom") =>
        /\ (d.cfg.custom_period_frequency = 0 \/ d.cfg.custom_period_unit = "")
              => (err # "" /\ CallIdx({"CreateScheduleRotation"}) = {} /\ sent = <<>>)
        /\ \A i \in 1..Len(sent) :
              /\ sent[i].CustomPeriodFrequency = d.cfg.custom_period_frequency
              /\ sent[i].CustomPeriodUnit = d.cfg.custom_period_unit

C4_Witness ==
    /\ Returned("rotation", {"create"})
    /\ d.cfg.period = "custom"
    /\ Len(d.cfg.shift_timeslots) = 2
    /\ Len(sent) = 1
    /\ sent[1].CustomPeriodFrequency = 2
    /\ sent[1].CustomPeriodUnit = "week"
    /\ err = ""

\* C5: with a period other than custom, a rotation create/update with a
\* non-zero frequency or a non-empty unit returns an error and never calls
\* CreateScheduleRotation; every request sent with a non-custom period has
\* custom period frequency 0 and an empty custom period unit.
C5_CustomFieldsOnlyWithCustom ==
    RotationWrite =>
        /\ (d.cfg.period # "custom"
              /\ (d.cfg.custom_period_frequency # 0 \/ d.cfg.custom_period_unit # ""))
              => (err # "" /\ CallIdx({"CreateScheduleRotation"}) = {} /\ sent = <<>>)
        /\ \A i \in 1..Len(sent) :
              sent[i].Period # "custom"
                  => (sent[i].CustomPeriodFrequency = 0 /\ sent[i].CustomPeriodUnit = "")

C5_Witness ==
    /\ Returned("rotation", {"create"})
    /\ d.cfg.period = "daily"
    /\ d.cfg.custom_period_frequency = 0
    /\ d.cfg.custom_period_unit = "week"
    /\ err = "custom_period_unit can only be set when period is custom"
    /\ calls = <<>>

\* C6: when the remote delete reports the object as not found (rotation or
\* webform), Delete clears the resource id and returns no error; on any
\* other remote error it returns the error and leaves the id unchanged.
C6_DeleteNotFoundIsSuccess ==
    (phase = "done" /\ op = "delete") =>
        /\ CallIdxOut(DeleteFns, "notfound") # {} => (d.id = EmptyStr /\ err = "")
        /\ CallIdxOut(DeleteFns, "error") # {} => (err # "" /\ d.id = id0)

C6_Witness ==
    /\ Returned("webform", {"delete"})
    /\ id0 # EmptyStr
    /\ CallIdxOut({"DeleteWebform"}, "notfound") # {}
    /\ d.id = EmptyStr /\ err = ""

Colons(s) == {i \in 1..Len(s) : s[i] = ":"}

\* s is three non-empty parts separated by two colons
ThreeColonSeparatedParts(s) ==
    /\ Cardinality(Colons(s)) = 2
    /\ Len(s) > 0 /\ s[1] # ":" /\ s[Len(s)] # ":"
    /\ \A i \in 1..(Len(s) - 1) : ~(s[i] = ":" /\ s[i + 1] = ":")

\* positions <<i, j>> of the first two colons of s, when the text before i,
\* between i and j and after j is non-empty
FirstTwoColons(s) ==
    {p \in Colons(s) \X Colons(s) :
        /\ p[1] < p[2]
        /\ \A k \in Colons(s) : k = p[1] \/ k >= p[2]
        /\ p[1] > 1 /\ p[2] > p[1] + 1 /\ p[2] < Len(s)}

ImportLookups == CallIdx({"GetRotationByName"})

\* what Import does once the id was accepted as the parts `names`
ImportLooksUp(names) ==
    /\ ImportLookups = {1}
    /\ calls[1].names = names
    /\ calls[1].out = "ok" =>
          (err = "" /\ IsDecimalOf(d.id, calls[1].ret) /\ calls[1].ret \in remote)
    /\ calls[1].out # "ok" => (err # "" /\ d.id = id0)

ImportRejects == err # "" /\ ImportLookups = {} /\ d.id = id0

\* C7 (as claimed): Import accepts only ids made of three non-empty
\* colon-separated parts; any other id is rejected without a lookup and
\* without changing the id; an accepted id is looked up by its three parts,
\* the id becoming the decimal string of the rotation found, or staying as it
\* was when the lookup fails.
C7_ImportOnlyThreeParts ==
    Returned("rotation", {"import"}) =>
        IF ThreeColonSeparatedParts(id0)
        THEN \E p \in FirstTwoColons(id0) :
                ImportLooksUp(<<SubSeq(id0, 1, p[1] - 1),
                                SubSeq(id0, p[1] + 1, p[2] - 1),
                                SubSeq(id0, p[2] + 1, Len(id0))>>)
        ELSE ImportRejects

\* C7 (amended): Import accepts exactly the ids whose text before the first
\* colon, between the first and the second colon, and after the second colon
\* is non-empty; the third part is everything after the second colon and may
\* contain colons.  Any other id is rejected without a lookup and without
\* changing the id; an accepted id is looked up by these three parts, the id
\* becoming the decimal string of the rotation found, or staying as it was
\* when the lookup fails.
C7_ImportSplitsAtFirstTwoColons ==
    Returned("rotation", {"import"}) =>
        IF FirstTwoColons(id0) # {}
        THEN \E p \in FirstTwoColons(id0) :
                ImportLooksUp(<<SubSeq(id0, 1, p[1] - 1),
                                SubSeq(id0, p[1] + 1, p[2] - 1),
                                SubSeq(id0, p[2] + 1, Len(id0))>>)
        ELSE ImportRejects

C7_Witness ==
    /\ Returned("rotation", {"import"})
    /\ Cardinality(Colons(id0)) = 3
    /\ ImportLookups = {1}
    /\ calls[1].out = "ok"
    /\ Colons(calls[1].names[3]) # {}
    /\ d.id = Itoa(calls[1].ret) /\ err = ""

\* C8: a webform Create that fails before or in CreateWebform returns an
\* error, sets no id and performs no Read; once CreateWebform has succeeded
\* the id is set to the base-10 string of the returned webform id and the
\* lookup of Read follows, with that id and the configured team_id.  The id
\* is never set before CreateWebform has succeeded.
C8_WebformIdAfterCreate ==
    Returned("webform", {"create"}) =>
        IF CallIdxOut({"CreateWebform"}, "ok") = {}
        THEN /\ err # "" /\ d.id = EmptyStr
             /\ CallIdx({"SetId", "GetWebformById"}) = {}
        ELSE /\ Len(calls) >= 3
             /\ calls[1].fn = "CreateWebform" /\ calls[1].out = "ok"
             /\ calls[1].team = d.cfg.team_id
             /\ calls[2].fn = "SetId" /\ IsDecimalOf(calls[2].id, calls[1].ret)
             /\ calls[3].fn = "GetWebformById"
             /\ calls[3].id = calls[2].id /\ calls[3].team = d.cfg.team_id
             /\ d.id \in {calls[2].id, EmptyStr}

C8_Witness ==
    /\ Returned("webform", {"create"})
    /\ Len(calls) = 3
    /\ calls[1].out = "ok" /\ calls[3].out = "ok"
    /\ Len(d.id) = 2 /\ err = ""

\* the request of a webform Update, and the call that carried it
UpdateSent ==
    /\ Len(sent) = 1
    /\ sent[1] = webformCreateReq(d.cfg)
    /\ calls[1].fn = "UpdateWebform"
    /\ calls[1].id = id0 /\ calls[1].team = d.cfg.team_id

\* C9 (as claimed): the request a webform Update sends equals the request
\* Create would send for the same configuration, Update addresses the webform
\* by the current id, and Update does not change that id.
C9_UpdateKeepsId ==
    Returned("webform", {"update"}) =>
        /\ sent # <<>> => UpdateSent
        /\ d.id = id0

\* C9 (amended): the request a webform Update sends equals the request Create
\* would send for the same configuration and Update addresses the webform by
\* the current id; Update never sets another id, and the id is unchanged
\* unless the Read that follows a successful UpdateWebform finds the webform
\* gone, which clears it.
C9_UpdateSendsCreateRequest ==
    Returned("webform", {"update"}) =>
        /\ sent # <<>> => UpdateSent
        /\ \A i \in CallIdx({"SetId"}) : calls[i].id = EmptyStr
        /\ d.id # id0 =>
              /\ d.id = EmptyStr /\ err = ""
              /\ CallIdxOut({"UpdateWebform"}, "ok") = {1}
              /\ CallIdxOut({"GetWebformById"}, "notfound") = {2}

C9_Witness ==
    /\ Returned("webform", {"update"})
    /\ UpdateSent
    /\ Len(sent[1].EmailOn) = 2 /\ Len(sent[1].Services) = 2
    /\ calls[1].out = "ok"
    /\ d.id = id0 /\ id0 # EmptyStr /\ err = ""

\* C10: the participant groups of every request a rotation create/update
\* sends are those of the configuration, as many and in the same order, each
\* with its participants in configured order; a configuration without
\* participant_groups gives a request without any.
C10_ParticipantGroupsInOrder ==
    RotationWrite =>
        \A k \in 1..Len(sent) :
            LET got == sent[k].ParticipantGroups
                want == d.cfg.participant_groups
            IN  /\ Len(got) = Len(want)
                /\ \A i \in 1..Len(want) :
                      /\ Len(got[i].Participants) = Len(want[i].participants)
                      /\ \A j \in 1..Len(want[i].participants) :
                            /\ got[i].Participants[j].ID = want[i].participants[j].id
                            /\ got[i].Participants[j].Type = want[i].participants[j].type

C10_Witness ==
    /\ RotationWrite
    /\ Len(sent) = 1
    /\ Len(d.cfg.participant_groups) = 2
    /\ d.cfg.participant_groups[1].participants = <<User1, Squad1>>
    /\ d.cfg.participant_groups[2].participants = <<Squad1, User1>>
    /\ sent[1].ParticipantGroups[1].Participants[2].ID = "s1"

====
